---- MODULE Spec2Model ----
(***************************************************************************)
(* A model of the file merger: the merge engine mergeFiles of              *)
(* src/lib/file-processor.ts and the two request handlers that stand in    *)
(* front of it and of the mapping oracle (api/merge-files,                 *)
(* api/analyze-columns).                                                   *)
(*                                                                         *)
(* JavaScript values.  A row (Record<string, any>) is a function from the  *)
(* keys it owns to values; a key the row does not own reads as Undefined.  *)
(* Null and Undefined are two different values, as in JavaScript.          *)
(***************************************************************************)
EXTENDS Integers, Sequences, FiniteSets, TLC

\* ------------------------------------------------------------------ bounds
MaxRows == 2
MaxMappings == 2
MaxCalls == 2

\* ------------------------------------------------------- JavaScript values
Null == "null"
Undefined == "undefined"
\* The scalar held by row i of file f under column c.  Every cell of the
\* inputs holds a different scalar, so that any mix-up of cells shows.
Cell(f, i, c) == ToString(f) \o ":" \o ToString(i) \o ":" \o c
EmptyObject == <<>>

Range(q) == {q[i] : i \in DOMAIN q}

\* obj[key]: the value of an own property, undefined otherwise.
Get(obj, key) == IF key \in DOMAIN obj THEN obj[key] ELSE Undefined

\* obj[key] = val: creates or overwrites the own property key.
Put(obj, key, val) ==
  [k \in (DOMAIN obj) \cup {key} |-> IF k = key THEN val ELSE obj[k]]

\* headers.filter((h) => !used.has(h)): the headers outside used, in order.
RECURSIVE Unmapped(_, _)
Unmapped(headers, used) ==
  IF headers = <<>> THEN <<>>
  ELSE (IF Head(headers) \notin used THEN <<Head(headers)>> ELSE <<>>)
         \o Unmapped(Tail(headers), used)

\* Object identities.  An input row is the object Ref(f, i); every object
\* literal evaluated during a call is an object no input refers to.
Ref(f, i) == <<f, i>>
FreshRef == <<0, 0>>

\* --------------------------------------------------------------- the inputs
Columns1 == {"a", "s"}
Columns2 == {"b", "s"}
MergedNames == {"a", "b", "m"}

UniqueSeqs(S) ==
  {q \in UNION {[1..n -> S] : n \in 0..Cardinality(S)} :
     \A i, j \in DOMAIN q : i # j => q[i] # q[j]}

\* The rows of file f: n rows over the columns of headers, each row owning
\* the keys of its columns, but for row sparse, which lacks the keys of
\* lacking (a row number of 0 leaves every row whole).
RowsOf(f, headers, n, sparse, lacking) ==
  [i \in 1..n |->
     [c \in {h \in Range(headers) : ~(i = sparse /\ h \in lacking)} |-> Cell(f, i, c)]]

ParsedFiles(f, name, columns) ==
  UNION {
    UNION {
      { [name |-> name, headers |-> headers,
         data |-> RowsOf(f, headers, n, sl[1], sl[2]), rowCount |-> n] :
          sl \in {<<0, {}>>} \cup ((1..n) \X (SUBSET Range(headers) \ {{}})) }
      : n \in 0..MaxRows }
    : headers \in UniqueSeqs(columns) }

ColumnMapping(c1, c2, m) ==
  [column1 |-> c1, column2 |-> c2, confidence |-> 1, reason |-> "r",
   mergedName |-> m]

\* The correspondence lists the data model admits for two header lists:
\* column1 a column of file1, column2 a column of file2, no source column
\* taken twice.  Nothing restricts mergedName.
MappingLists(h1, h2) ==
  {q \in UNION {[1..n -> {ColumnMapping(c1, c2, m) :
                            c1 \in Range(h1), c2 \in Range(h2), m \in MergedNames}]
                  : n \in 0..MaxMappings} :
     \A i, j \in DOMAIN q :
        i # j => q[i].column1 # q[j].column1 /\ q[i].column2 # q[j].column2}

\* ------------------------------------------------------------- mergeFiles
\* new Map(mappings.map((m) => [m.column2, {column1, mergedName}])): one
\* entry per column2, the last correspondence naming a column2 keeping it.
mappingMap(mappings) ==
  [k \in {mappings[j].column2 : j \in DOMAIN mappings} |->
     LET last == CHOOSE j \in DOMAIN mappings :
                   /\ mappings[j].column2 = k
                   /\ \A j2 \in DOMAIN mappings : mappings[j2].column2 = k => j2 <= j
     IN [column1 |-> mappings[last].column1, mergedName |-> mappings[last].mergedName]]

\* new Set(mappings.map((m) => m.column1))
usedColumns1(mappings) == {mappings[j].column1 : j \in DOMAIN mappings}

\* mergedHeaders with file2's headers filtered by usedColumns1, the set of
\* the other side.
mergedHeaders_usedColumns1(file1, file2, mappings) ==
  Unmapped(file1.headers, usedColumns1(mappings))
    \o [j \in DOMAIN mappings |-> mappings[j].mergedName]
    \o Unmapped(file2.headers, usedColumns1(mappings))

\* The spread of the three arrays: nothing is removed from the concatenation.
mergedHeaders(file1, file2, mappings) ==
  Unmapped(file1.headers, usedColumns1(mappings))
    \o [j \in DOMAIN mappings |-> mappings[j].mergedName]
    \o Unmapped(file2.headers, DOMAIN mappingMap(mappings))

\* headers.forEach((header) => { if (!used.has(header)) mergedRow[header] = row[header] })
RECURSIVE CopyUnmapped(_, _, _, _)
CopyUnmapped(mergedRow, headers, used, row) ==
  IF headers = <<>> THEN mergedRow
  ELSE CopyUnmapped(
         IF Head(headers) \notin used
           THEN Put(mergedRow, Head(headers), Get(row, Head(headers)))
           ELSE mergedRow,
         Tail(headers), used, row)

\* headers.forEach((header) => { if (!used.has(header)) mergedRow[header] = null })
RECURSIVE NullUnmapped(_, _, _)
NullUnmapped(mergedRow, headers, used) ==
  IF headers = <<>> THEN mergedRow
  ELSE NullUnmapped(
         IF Head(headers) \notin used
           THEN Put(mergedRow, Head(headers), Null)
           ELSE mergedRow,
         Tail(headers), used)

\* mappings.forEach((mapping) => { mergedRow[mapping.mergedName] = row[mapping.column1] })
RECURSIVE AddMapped1(_, _, _)
AddMapped1(mergedRow, mappings, row) ==
  IF mappings = <<>> THEN mergedRow
  ELSE AddMapped1(
         Put(mergedRow, Head(mappings).mergedName, Get(row, Head(mappings).column1)),
         Tail(mappings), row)

\* mappings.forEach((mapping) => { mergedRow[mapping.mergedName] = row[mapping.column2] })
RECURSIVE AddMapped2(_, _, _)
AddMapped2(mergedRow, mappings, row) ==
  IF mappings = <<>> THEN mergedRow
  ELSE AddMapped2(
         Put(mergedRow, Head(mappings).mergedName, Get(row, Head(mappings).column2)),
         Tail(mappings), row)

\* MergedRow1 without the null-fill of file2's unmapped columns.
MergedRow1_noNullFill(file1, file2, mappings, row, ref) ==
  [ref |-> FreshRef,
   fields |->
     AddMapped1(
       CopyUnmapped(EmptyObject, file1.headers, usedColumns1(mappings), row),
       mappings, row)]

\* MergedRow1 with the null-fill of file2's unmapped columns done before
\* the mapped columns are written.
MergedRow1_nullFillFirst(file1, file2, mappings, row, ref) ==
  [ref |-> FreshRef,
   fields |->
     AddMapped1(
       NullUnmapped(
         CopyUnmapped(EmptyObject, file1.headers, usedColumns1(mappings), row),
         file2.headers, DOMAIN mappingMap(mappings)),
       mappings, row)]

\* MergedRow1 with mergedRow bound to row itself instead of a new object.
MergedRow1_inPlace(file1, file2, mappings, row, ref) ==
  [ref |-> ref,
   fields |->
     NullUnmapped(
       AddMapped1(
         CopyUnmapped(row, file1.headers, usedColumns1(mappings), row),
         mappings, row),
       file2.headers, DOMAIN mappingMap(mappings))]

\* The body of file1.data.forEach: the row pushed for row, an object of
\* file1.data whose identity is ref.  mergedRow starts as a new object.
MergedRow1(file1, file2, mappings, row, ref) ==
  [ref |-> FreshRef,
   fields |->
     NullUnmapped(
       AddMapped1(
         CopyUnmapped(EmptyObject, file1.headers, usedColumns1(mappings), row),
         mappings, row),
       file2.headers, DOMAIN mappingMap(mappings))]

\* MergedRow2 reading column1, as the loop over file1 does.
MergedRow2_column1(file1, file2, mappings, row, ref) ==
  [ref |-> FreshRef,
   fields |->
     CopyUnmapped(
       AddMapped1(
         NullUnmapped(EmptyObject, file1.headers, usedColumns1(mappings)),
         mappings, row),
       file2.headers, DOMAIN mappingMap(mappings), row)]

\* MergedRow2 with every read written as row[key] ?? null.
MergedRow2_nullish(file1, file2, mappings, row, ref) ==
  LET fields == CopyUnmapped(
                  AddMapped2(
                    NullUnmapped(EmptyObject, file1.headers, usedColumns1(mappings)),
                    mappings, row),
                  file2.headers, DOMAIN mappingMap(mappings), row)
  IN [ref |-> FreshRef,
      fields |-> [k \in DOMAIN fields |->
                    IF fields[k] = Undefined THEN Null ELSE fields[k]]]

\* The body of file2.data.forEach.
MergedRow2(file1, file2, mappings, row, ref) ==
  [ref |-> FreshRef,
   fields |->
     CopyUnmapped(
       AddMapped2(
         NullUnmapped(EmptyObject, file1.headers, usedColumns1(mappings)),
         mappings, row),
       file2.headers, DOMAIN mappingMap(mappings), row)]

\* mergedData with the loop over file2 run before the loop over file1.
mergedData_file2First(file1, file2, mappings) ==
  [i \in 1..Len(file2.data) |->
     MergedRow2(file1, file2, mappings, file2.data[i], Ref(2, i))]
    \o [i \in 1..Len(file1.data) |->
          MergedRow1(file1, file2, mappings, file1.data[i], Ref(1, i))]

\* mergedData after the two forEach loops: one push per row of file1, in
\* order, then one push per row of file2, in order.
mergedData(file1, file2, mappings) ==
  [i \in 1..Len(file1.data) |->
     MergedRow1(file1, file2, mappings, file1.data[i], Ref(1, i))]
    \o [i \in 1..Len(file2.data) |->
          MergedRow2(file1, file2, mappings, file2.data[i], Ref(2, i))]

\* mergeFiles raises a TypeError when it calls filter or forEach on an
\* undefined headers or data property.
Raises(file1, file2, mappings) ==
  ~ /\ {"headers", "data"} \subseteq DOMAIN file1
    /\ {"headers", "data"} \subseteq DOMAIN file2

\* The MergeResult returned.  Its mappings property is the array passed in.
mergeFiles(file1, file2, mappings) ==
  LET rows == mergedData(file1, file2, mappings)
  IN [headers |-> mergedHeaders(file1, file2, mappings),
      data |-> rows,
      mappings |-> mappings,
      rowCount |-> Len(rows),
      sourceFiles |-> <<Get(file1, "name"), Get(file2, "name")>>]

\* What the rows of file f hold once the rows objs were built: an assignment
\* to a property of an object writes to every array that refers to it.
WrittenThrough(f, data, objs) ==
  [i \in DOMAIN data |->
     IF \E k \in DOMAIN objs : objs[k].ref = Ref(f, i)
       THEN objs[CHOOSE k \in DOMAIN objs : objs[k].ref = Ref(f, i)].fields
       ELSE data[i]]

\* ------------------------------------------------------- request handlers
\* A JSON value as a handler sees it after request.json(): its type and,
\* for an object or an array, what it holds.
JsUndefined == [type |-> "undefined"]
JsNull == [type |-> "null"]
JsObject(fields) == [type |-> "object", value |-> fields]
JsArray(elems) == [type |-> "array", value |-> elems]

\* !v is true of undefined and null (and of 0, "" and false, which the
\* requests of this model do not hold).
Falsy(v) == v.type \in {"undefined", "null"}
IsArray(v) == v.type = "array"

\* JSON.stringify of a row: a property holding undefined is left out.
JsonRow(fields) == [k \in {x \in DOMAIN fields : fields[x] # Undefined} |-> fields[k]]

\* NextResponse.json(result): the rows lose their identity and their
\* undefined properties; undefined inside an array is written as null.
Json(res) ==
  [headers |-> res.headers,
   data |-> [i \in DOMAIN res.data |-> JsonRow(res.data[i].fields)],
   mappings |-> res.mappings,
   rowCount |-> res.rowCount,
   sourceFiles |-> [i \in DOMAIN res.sourceFiles |->
                      IF res.sourceFiles[i] = Undefined THEN Null ELSE res.sourceFiles[i]]]

\* { name: file.name, headers: file.headers, data: file.data, rowCount: file.rowCount }:
\* a property read as undefined stays undefined.
ParsedFileOf(file) ==
  [k \in (DOMAIN file.value) \cap {"name", "headers", "data", "rowCount"} |-> file.value[k]]

Status400(msg) == [status |-> 400, error |-> msg]
Status500(msg) == [status |-> 500, error |-> msg]

\* The handler past its two checks: the two ParsedFile objects are rebuilt
\* from the body and mergeFiles is called on them; what it throws is caught.
MergeFilesCall(body) ==
  LET parsedFile1 == ParsedFileOf(body.file1)
      parsedFile2 == ParsedFileOf(body.file2)
  IN IF Raises(parsedFile1, parsedFile2, body.mappings.value)
       THEN [response |-> Status500("Failed to merge files"), invoked |-> TRUE,
             file1 |-> parsedFile1, file2 |-> parsedFile2,
             mappings |-> body.mappings.value, raised |-> TRUE]
       ELSE [response |-> [status |-> 200,
                           body |-> Json(mergeFiles(parsedFile1, parsedFile2,
                                                    body.mappings.value))],
             invoked |-> TRUE,
             file1 |-> parsedFile1, file2 |-> parsedFile2,
             mappings |-> body.mappings.value, raised |-> FALSE]

\* MergeFilesPOST with the two checks in the other order.
MergeFilesPOST_mappingsFirst(body) ==
  IF body.kind # "object"
    THEN [response |-> Status500("Failed to merge files"), invoked |-> FALSE]
  ELSE IF ~IsArray(body.mappings)
    THEN [response |-> Status400("Mappings must be an array"), invoked |-> FALSE]
  ELSE IF Falsy(body.file1) \/ Falsy(body.file2)
    THEN [response |-> Status400("Both files are required"), invoked |-> FALSE]
  ELSE MergeFilesCall(body)

\* POST of api/merge-files on a request body: the response, whether
\* mergeFiles was called, and with what.
MergeFilesPOST(body) ==
  IF body.kind # "object"
    \* request.json() rejects, or destructuring null throws: the catch block
    THEN [response |-> Status500("Failed to merge files"), invoked |-> FALSE]
  ELSE IF Falsy(body.file1) \/ Falsy(body.file2)
    THEN [response |-> Status400("Both files are required"), invoked |-> FALSE]
  ELSE IF ~IsArray(body.mappings)
    THEN [response |-> Status400("Mappings must be an array"), invoked |-> FALSE]
  ELSE MergeFilesCall(body)

\* file.headers.join(", ") in the prompt throws a TypeError when the file
\* object has no headers property.
PromptThrows(file) == "headers" \notin DOMAIN file.value

\* POST of api/analyze-columns on a request body, the oracle (generateObject)
\* answering answer: a rejection, or the object it resolves with.
AnalyzeColumnsPOST(body, answer) ==
  IF body.kind # "object"
    THEN [response |-> Status500("Failed to analyze columns"), asked |-> FALSE]
  ELSE IF Falsy(body.file1) \/ Falsy(body.file2)
    THEN [response |-> Status400("Both files are required"), asked |-> FALSE]
  ELSE IF PromptThrows(body.file1) \/ PromptThrows(body.file2)
    THEN [response |-> Status500("Failed to analyze columns"), asked |-> FALSE]
  ELSE IF answer.kind = "rejected"
    THEN [response |-> Status500("Failed to analyze columns"), asked |-> TRUE]
  ELSE [response |-> [status |-> 200, body |-> answer.object], asked |-> TRUE]

\* ---------------------------------------------------------------- the state
VARIABLES
  file1, file2, mappings,  \* the caller's two ParsedFile objects and its ColumnMapping array
  given,                   \* the three as they were when the caller built them
  calls,                   \* the calls of mergeFiles that have returned or thrown
  result,                  \* what the last call returned
  raised,                  \* whether the last call threw
  firstResult,             \* what the first call returned
  request,                 \* the HTTP request being served: its route and body
  response,                \* the response sent for it
  oracle,                  \* the oracle call of the request: "none", "resolved", "rejected"
  files,                   \* FileMerger: the loaded files
  isProcessing,            \* FileMerger: the busy flag
  mappingsState,           \* FileMerger: its mappings state
  mappingsFrom,            \* the loaded files the request that set mappingsState was sent for
  mergeResult,             \* FileMerger: the merge result held, or null
  pending,                 \* FileMerger: the handlers suspended at an await
  toasted,                 \* the last toast shown
  drops,                   \* the drops handled so far
  requests                 \* the analyze and merge requests sent so far

engineVars == <<file1, file2, mappings, given, calls, result, raised, firstResult,
                request, response, oracle>>
uiVars == <<files, isProcessing, mappingsState, mappingsFrom, mergeResult,
            pending, toasted, drops, requests>>
vars == <<engineVars, uiVars>>

NoResult == [rowCount |-> -1]
NoRequest == [route |-> "none"]
NoResponse == [status |-> 0]
NoFile == [name |-> "none"]
NoMergeResult == [sourceFiles |-> <<>>, from |-> <<>>, mappings |-> <<>>]

\* The useState initial values of FileMerger.
InitFileMerger ==
  /\ files = <<>>
  /\ isProcessing = FALSE
  /\ mappingsState = <<>>
  /\ mappingsFrom = <<>>
  /\ mergeResult = NoMergeResult
  /\ pending = {}
  /\ toasted = "none"
  /\ drops = 0
  /\ requests = 0

InitEngine ==
  /\ file1 \in ParsedFiles(1, "f1.csv", Columns1)
  /\ file2 \in ParsedFiles(2, "f2.csv", Columns2)
  /\ mappings \in MappingLists(file1.headers, file2.headers)
  /\ given = [file1 |-> file1, file2 |-> file2, mappings |-> mappings]
  /\ calls = 0
  /\ result = NoResult
  /\ raised = FALSE
  /\ firstResult = NoResult
  /\ request = NoRequest
  /\ response = NoResponse
  /\ oracle = "none"
  /\ InitFileMerger

\* One call mergeFiles(file1, file2, mappings) on the caller's objects.
CallMerge ==
  /\ request = NoRequest
  /\ calls < MaxCalls
  /\ calls' = calls + 1
  /\ IF Raises(file1, file2, mappings)
       THEN /\ raised' = TRUE
            /\ UNCHANGED <<file1, file2, mappings, result, firstResult>>
       ELSE LET out == mergeFiles(file1, file2, mappings)
            IN /\ raised' = FALSE
               /\ result' = out
               /\ firstResult' = IF calls = 0 THEN out ELSE firstResult
               /\ file1' = [file1 EXCEPT !.data = WrittenThrough(1, file1.data, out.data)]
               /\ file2' = [file2 EXCEPT !.data = WrittenThrough(2, file2.data, out.data)]
               /\ mappings' = mappings
  /\ UNCHANGED <<given, request, response, oracle>>
  /\ UNCHANGED uiVars

Init == InitEngine
Next == CallMerge
Spec == Init /\ [][Next]_vars

\* ------------------------------------------------------------ the requests
\* What a request may hold for file1 or file2: nothing, null, an object
\* without headers or data, or a file as the parser adapter builds it.
FileFields(f, name, columns) ==
  {JsUndefined, JsNull, JsObject(EmptyObject), JsObject([name |-> name])}
    \cup {JsObject(pf) : pf \in {x \in ParsedFiles(f, name, columns) :
                                   /\ Len(x.headers) = Cardinality(columns)
                                   /\ x.rowCount = 1}}

HeadersOf(file) ==
  IF file.type = "object" /\ "headers" \in DOMAIN file.value
    THEN file.value.headers ELSE <<>>

\* What a request may hold for mappings.
MappingFields(f1, f2) ==
  {JsUndefined, JsNull, JsObject(EmptyObject)}
    \cup {JsArray(q) : q \in MappingLists(HeadersOf(f1), HeadersOf(f2))}

Bodies ==
  {[kind |-> "unparsable"], [kind |-> "null"]}
    \cup UNION { UNION {
           {[kind |-> "object", file1 |-> f1, file2 |-> f2, mappings |-> m] :
              m \in MappingFields(f1, f2)}
           : f2 \in FileFields(2, "f2.csv", Columns2)}
         : f1 \in FileFields(1, "f1.csv", Columns1)}

\* What the oracle may answer on a request: a rejection or a proposal.
OracleAnswers(body) ==
  {[kind |-> "rejected"]}
    \cup {[kind |-> "resolved",
           object |->
             [mappings |-> q,
              unmatchedColumns1 |-> Unmapped(HeadersOf(body.file1), usedColumns1(q)),
              unmatchedColumns2 |-> Unmapped(HeadersOf(body.file2), DOMAIN mappingMap(q))]] :
            q \in MappingLists(HeadersOf(body.file1), HeadersOf(body.file2))}

InitApi ==
  /\ request \in {[route |-> "merge-files", body |-> b] : b \in Bodies}
                  \cup {[route |-> "analyze-columns", body |-> b] :
                          b \in {x \in Bodies : x.kind = "object" => x.mappings = JsUndefined}}
  /\ response = NoResponse
  /\ oracle = "none"
  /\ file1 = NoFile
  /\ file2 = NoFile
  /\ mappings = <<>>
  /\ given = [file1 |-> NoFile, file2 |-> NoFile, mappings |-> <<>>]
  /\ calls = 0
  /\ result = NoResult
  /\ raised = FALSE
  /\ firstResult = NoResult
  /\ InitFileMerger

\* The merge route serves the request.
ServeMergeFiles ==
  /\ request.route = "merge-files"
  /\ response = NoResponse
  /\ LET out == MergeFilesPOST(request.body)
     IN /\ response' = out.response
        /\ IF out.invoked
             THEN /\ calls' = calls + 1
                  /\ file1' = out.file1
                  /\ file2' = out.file2
                  /\ mappings' = out.mappings
                  /\ given' = [file1 |-> out.file1, file2 |-> out.file2,
                               mappings |-> out.mappings]
                  /\ raised' = out.raised
             ELSE UNCHANGED <<calls, file1, file2, mappings, given, raised>>
  /\ UNCHANGED <<request, result, firstResult, oracle>>
  /\ UNCHANGED uiVars

\* The analyze route serves the request, the oracle answering as it will.
ServeAnalyzeColumns ==
  /\ request.route = "analyze-columns"
  /\ response = NoResponse
  /\ \E answer \in (IF request.body.kind = "object"
                      THEN OracleAnswers(request.body) ELSE {[kind |-> "rejected"]}) :
       LET out == AnalyzeColumnsPOST(request.body, answer)
       IN /\ response' = out.response
          /\ oracle' = IF ~out.asked THEN "none"
                       ELSE answer.kind
  /\ UNCHANGED <<request, file1, file2, mappings, given, calls, result, raised,
                 firstResult>>
  /\ UNCHANGED uiVars

NextApi == ServeMergeFiles \/ ServeAnalyzeColumns
SpecApi == InitApi /\ [][NextApi]_vars

\* ------------------------------------------------------------- FileMerger
MaxFiles == 2
MaxDrops == 2
MaxRequests == 2

\* A File of the browser: its name and the extension the name ends with.
File(name, ext) == [name |-> name, ext |-> ext]
DroppedFiles == {File("x.csv", "csv"), File("y.xlsx", "xlsx"), File("n.txt", "txt")}

\* What the dropzone hands to onDrop: at most maxFiles files.
AcceptedFileLists == {q \in UniqueSeqs(DroppedFiles) : Len(q) <= MaxFiles}

\* acceptedFiles.filter(ext === 'csv' || ext === 'xlsx' || ext === 'xls')
csvXlsxFiles(acceptedFiles) ==
  SelectSeq(acceptedFiles, LAMBDA file : file.ext \in {"csv", "xlsx", "xls"})

\* The object { ...parsed, file } that parsing the i-th file of drop n gives;
\* drop and index tell the object from every other one.
FileWithPreview(file, n, i) == [name |-> file.name, drop |-> n, index |-> i]

\* parsedFiles: the files of the drop whose parseFile resolved, in order.
RECURSIVE parsedFiles(_, _, _, _)
parsedFiles(csv, n, failed, i) ==
  IF i > Len(csv) THEN <<>>
  ELSE (IF i \in failed THEN <<>> ELSE <<FileWithPreview(csv[i], n, i)>>)
       \o parsedFiles(csv, n, failed, i + 1)

\* prev.filter((_, i) => i !== index), index counted from 1 here.
WithoutIndex(prev, index) ==
  [i \in 1..(Len(prev) - 1) |-> IF i < index THEN prev[i] ELSE prev[i + 1]]

\* A handler suspended at an await: what its closure holds.
Suspended(kind, n, fs, ms) == [kind |-> kind, n |-> n, files |-> fs, mappings |-> ms]

\* What the analyze request can come back with: a failure, or a body whose
\* mappings is missing or empty, or a body with a correspondence.
AnalyzeOutcomes ==
  {[ok |-> FALSE, mappings |-> <<>>], [ok |-> TRUE, mappings |-> <<>>],
   [ok |-> TRUE, mappings |-> <<ColumnMapping("a", "b", "m")>>]}

\* The MergeResult of the merge of the two files of a request.
MergeResultOf(fs, ms) ==
  [sourceFiles |-> <<fs[1].name, fs[2].name>>, from |-> fs, mappings |-> ms]

InitUI ==
  /\ InitFileMerger
  /\ request = NoRequest
  /\ response = NoResponse
  /\ oracle = "none"
  /\ file1 = NoFile
  /\ file2 = NoFile
  /\ mappings = <<>>
  /\ given = [file1 |-> NoFile, file2 |-> NoFile, mappings |-> <<>>]
  /\ calls = 0
  /\ result = NoResult
  /\ raised = FALSE
  /\ firstResult = NoResult

\* onDrop up to its first await: the two checks, then the busy flag.
onDrop(acceptedFiles) ==
  /\ drops < MaxDrops
  /\ LET csv == csvXlsxFiles(acceptedFiles)
     IN IF Len(csv) = 0
          THEN /\ toasted' = "Please upload only CSV or Excel files"
               /\ UNCHANGED <<isProcessing, pending, drops>>
          ELSE IF Len(files) + Len(csv) > MaxFiles
                 THEN /\ toasted' = "You can upload maximum 2 files"
                      /\ UNCHANGED <<isProcessing, pending, drops>>
                 ELSE /\ isProcessing' = TRUE
                      /\ drops' = drops + 1
                      /\ pending' = pending \cup
                           {Suspended("onDrop", drops + 1, csv, <<>>)}
                      /\ UNCHANGED toasted
  /\ UNCHANGED <<files, mappingsState, mappingsFrom, mergeResult, requests>>
  /\ UNCHANGED engineVars

\* onDrop after its last await: the parsed files are appended to whatever
\* the list holds by then.
onDropParsed(op, failed) ==
  /\ op \in pending
  /\ op.kind = "onDrop"
  /\ failed \subseteq DOMAIN op.files
  /\ LET parsed == parsedFiles(op.files, op.n, failed, 1)
     IN /\ files' = files \o parsed
        /\ toasted' = IF Len(parsed) > 0 THEN "Successfully parsed"
                      ELSE "Error parsing"
  /\ isProcessing' = FALSE
  /\ pending' = pending \ {op}
  /\ UNCHANGED <<mappingsState, mappingsFrom, mergeResult, drops, requests>>
  /\ UNCHANGED engineVars

\* removeFile(index), from the button of a listed file.
removeFile(index) ==
  /\ index \in DOMAIN files
  /\ files' = WithoutIndex(files, index)
  /\ mappingsState' = <<>>
  /\ mappingsFrom' = <<>>
  /\ mergeResult' = NoMergeResult
  /\ UNCHANGED <<isProcessing, pending, toasted, drops, requests>>
  /\ UNCHANGED engineVars

\* analyzeMappings up to its fetch, from the button, which is enabled with
\* two files and the busy flag down.
analyzeMappings ==
  /\ Len(files) = MaxFiles /\ ~isProcessing
  /\ requests < MaxRequests
  /\ IF Len(files) # MaxFiles
       THEN /\ toasted' = "Please upload exactly 2 files to analyze mappings"
            /\ UNCHANGED <<isProcessing, pending, requests>>
       ELSE /\ isProcessing' = TRUE
            /\ requests' = requests + 1
            /\ pending' = pending \cup
                 {Suspended("analyzeMappings", requests + 1, files, <<>>)}
            /\ UNCHANGED toasted
  /\ UNCHANGED <<files, mappingsState, mappingsFrom, mergeResult, drops>>
  /\ UNCHANGED engineVars

\* analyzeMappings after its fetch.
analyzeMappingsDone(op, outcome) ==
  /\ op \in pending
  /\ op.kind = "analyzeMappings"
  /\ IF outcome.ok
       THEN /\ mappingsState' = outcome.mappings
            /\ mappingsFrom' = op.files
            /\ toasted' = "Column analysis complete!"
       ELSE /\ toasted' = "Analysis failed"
            /\ UNCHANGED <<mappingsState, mappingsFrom>>
  /\ isProcessing' = FALSE
  /\ pending' = pending \ {op}
  /\ UNCHANGED <<files, mergeResult, drops, requests>>
  /\ UNCHANGED engineVars

\* performMerge up to its fetch, from the button, which is shown with a file
\* listed and a correspondence held, and enabled with the busy flag down.
performMerge ==
  /\ Len(files) > 0 /\ Len(mappingsState) > 0 /\ ~isProcessing
  /\ requests < MaxRequests
  /\ IF Len(files) # MaxFiles
       THEN /\ toasted' = "Please upload exactly 2 files to merge"
            /\ UNCHANGED <<isProcessing, pending, requests>>
       ELSE /\ isProcessing' = TRUE
            /\ requests' = requests + 1
            /\ pending' = pending \cup
                 {Suspended("performMerge", requests + 1, files, mappingsState)}
            /\ UNCHANGED toasted
  /\ UNCHANGED <<files, mappingsState, mappingsFrom, mergeResult, drops>>
  /\ UNCHANGED engineVars

\* performMerge after its fetch.
performMergeDone(op, ok) ==
  /\ op \in pending
  /\ op.kind = "performMerge"
  /\ IF ok
       THEN /\ mergeResult' = MergeResultOf(op.files, op.mappings)
            /\ toasted' = "Files merged successfully!"
       ELSE /\ toasted' = "Merge failed"
            /\ UNCHANGED mergeResult
  /\ isProcessing' = FALSE
  /\ pending' = pending \ {op}
  /\ UNCHANGED <<files, mappingsState, mappingsFrom, drops, requests>>
  /\ UNCHANGED engineVars

NextUI ==
  \/ \E acceptedFiles \in AcceptedFileLists : onDrop(acceptedFiles)
  \/ \E op \in pending : \E failed \in SUBSET (1..MaxFiles) : onDropParsed(op, failed)
  \/ \E index \in 1..(MaxFiles * MaxDrops) : removeFile(index)
  \/ analyzeMappings
  \/ \E op \in pending : \E outcome \in AnalyzeOutcomes : analyzeMappingsDone(op, outcome)
  \/ performMerge
  \/ \E op \in pending : \E ok \in BOOLEAN : performMergeDone(op, ok)
SpecUI == InitUI /\ [][NextUI]_vars

\* ---------------------------------------------------- the merge, as claimed
\* The two datasets and the correspondence list the caller passed.
datasetA == given.file1
datasetB == given.file2
corr == given.mappings
rowsA == Len(datasetA.data)
rowsB == Len(datasetB.data)
rowA(i) == datasetA.data[i]
rowB(i) == datasetB.data[i]
usedA == {corr[j].column1 : j \in DOMAIN corr}
usedB == {corr[j].column2 : j \in DOMAIN corr}
unmappedA == Range(datasetA.headers) \ usedA
unmappedB == Range(datasetB.headers) \ usedB
mergedNames == {corr[j].mergedName : j \in DOMAIN corr}

\* A call of mergeFiles on the caller's objects has returned.
Returned == request = NoRequest /\ calls > 0 /\ ~raised
outRow(i) == result.data[i].fields

\* The scalars a row holds, the two no-value markers aside.
Scalars(row) == {row[k] : k \in DOMAIN row} \ {Null, Undefined}

\* The write of correspondence j is the last write to its mergedName: no
\* later correspondence and no unmapped column of B has that name.
LastWrite(j) ==
  /\ \A j2 \in DOMAIN corr : j2 > j => corr[j2].mergedName # corr[j].mergedName
  /\ corr[j].mergedName \notin unmappedB

\* C1: the result has rowsA + rowsB rows and reports that number as
\* rowCount; output row i is built from A's row i for i <= rowsA and from
\* B's row i - rowsA after that (every scalar it holds is a scalar of that
\* row, and no two input rows share a scalar).
C1_RowCountAndOrder ==
  Returned =>
    /\ Len(result.data) = rowsA + rowsB
    /\ result.rowCount = rowsA + rowsB
    /\ \A i \in 1..Len(result.data) :
         /\ i <= rowsA => Scalars(outRow(i)) \subseteq Scalars(rowA(i))
         /\ i > rowsA => Scalars(outRow(i)) \subseteq Scalars(rowB(i - rowsA))

C1_Witness ==
  /\ Returned
  /\ rowsA >= 2 /\ rowsB >= 2
  /\ Len(corr) >= 1
  /\ \A i \in 1..Len(result.data) : Scalars(outRow(i)) # {}

\* The column list the specification gives for the output.
ExpectedColumns ==
  SelectSeq(datasetA.headers, LAMBDA c : c \notin usedA)
    \o [j \in DOMAIN corr |-> corr[j].mergedName]
    \o SelectSeq(datasetB.headers, LAMBDA c : c \notin usedB)

C3_MappedFieldsAsStated ==
  Returned =>
    \A j \in DOMAIN corr :
      /\ \A i \in 1..rowsA :
           Get(outRow(i), corr[j].mergedName) = Get(rowA(i), corr[j].column1)
      /\ \A i \in 1..rowsB :
           Get(outRow(rowsA + i), corr[j].mergedName) = Get(rowB(i), corr[j].column2)

\* C3, amended: the same, for every correspondence whose mergedName is
\* neither the mergedName of a later correspondence nor the name of an
\* unmapped column of B.
C3_MappedFields ==
  Returned =>
    \A j \in DOMAIN corr :
      LastWrite(j) =>
        /\ \A i \in 1..rowsA :
             /\ corr[j].mergedName \in DOMAIN outRow(i)
             /\ outRow(i)[corr[j].mergedName] = Get(rowA(i), corr[j].column1)
        /\ \A i \in 1..rowsB :
             /\ corr[j].mergedName \in DOMAIN outRow(rowsA + i)
             /\ outRow(rowsA + i)[corr[j].mergedName] = Get(rowB(i), corr[j].column2)

C3_Witness ==
  /\ Returned
  /\ rowsA >= 1 /\ rowsB >= 1
  /\ \E j \in DOMAIN corr :
       /\ LastWrite(j)
       /\ corr[j].mergedName \in unmappedA
       /\ outRow(1)[corr[j].mergedName] = Cell(1, 1, corr[j].column1)
       /\ outRow(rowsA + 1)[corr[j].mergedName] = Cell(2, 1, corr[j].column2)

\* C4, as stated: the first rowsA output rows agree with A's rows on A's
\* unmapped columns, the last rowsB output rows agree with B's rows on B's
\* unmapped columns (read here of the values the rows do hold).
C4_OrderPreservation ==
  Returned =>
    /\ \A i \in 1..rowsA : \A c \in unmappedA \cap DOMAIN rowA(i) :
         Get(outRow(i), c) = rowA(i)[c]
    /\ \A i \in 1..rowsB : \A c \in unmappedB \cap DOMAIN rowB(i) :
         Get(outRow(rowsA + i), c) = rowB(i)[c]

\* C5, as stated: an A-derived row holds null under every unmapped column
\* of B, a B-derived row holds null under every unmapped column of A.
C5_CrossFillAsStated ==
  Returned =>
    /\ \A i \in 1..rowsA : \A c \in unmappedB :
         c \in DOMAIN outRow(i) /\ outRow(i)[c] = Null
    /\ \A i \in 1..rowsB : \A c \in unmappedA :
         c \in DOMAIN outRow(rowsA + i) /\ outRow(rowsA + i)[c] = Null

\* C5, amended: an A-derived row holds null under every unmapped column of
\* B; a B-derived row holds null under every unmapped column of A that is
\* neither a mergedName nor the name of an unmapped column of B.
C5_CrossFill ==
  Returned =>
    /\ \A i \in 1..rowsA : \A c \in unmappedB :
         c \in DOMAIN outRow(i) /\ outRow(i)[c] = Null
    /\ \A i \in 1..rowsB : \A c \in unmappedA \ (mergedNames \cup unmappedB) :
         c \in DOMAIN outRow(rowsA + i) /\ outRow(rowsA + i)[c] = Null

C5_Witness ==
  /\ Returned
  /\ rowsA >= 1 /\ rowsB >= 1
  /\ unmappedB # {}
  /\ unmappedA \ (mergedNames \cup unmappedB) # {}
  /\ unmappedA \cap unmappedB # {}

\* C6, as stated: no name occurs twice in the output column list.
C6_NoDuplicateColumns ==
  Returned =>
    \A i, j \in DOMAIN result.headers :
       i # j => result.headers[i] # result.headers[j]

\* C9, as stated: the call does not raise, and where a row lacks a key that
\* is read for it, the output field is present and holds null.
C9_MissingKeyAsStated ==
  /\ ~raised
  /\ Returned =>
       /\ \A i \in 1..rowsA :
            /\ \A c \in unmappedA : c \notin DOMAIN rowA(i) =>
                 c \in DOMAIN outRow(i) /\ outRow(i)[c] = Null
            /\ \A j \in DOMAIN corr : corr[j].column1 \notin DOMAIN rowA(i) =>
                 /\ corr[j].mergedName \in DOMAIN outRow(i)
                 /\ outRow(i)[corr[j].mergedName] = Null
       /\ \A i \in 1..rowsB :
            /\ \A c \in unmappedB : c \notin DOMAIN rowB(i) =>
                 c \in DOMAIN outRow(rowsA + i) /\ outRow(rowsA + i)[c] = Null
            /\ \A j \in DOMAIN corr : corr[j].column2 \notin DOMAIN rowB(i) =>
                 /\ corr[j].mergedName \in DOMAIN outRow(rowsA + i)
                 /\ outRow(rowsA + i)[corr[j].mergedName] = Null

\* C9, amended: the call does not raise, and where a row lacks a key that
\* is read for it, the output field is present and holds undefined, which
\* is not the null of a cross-filled column, unless a later write of the
\* row construction replaces it.
C9_MissingKey ==
  /\ ~raised
  /\ Undefined # Null
  /\ Returned =>
       /\ \A i \in 1..rowsA :
            /\ \A c \in unmappedA \ (mergedNames \cup unmappedB) :
                 c \notin DOMAIN rowA(i) =>
                   c \in DOMAIN outRow(i) /\ outRow(i)[c] = Undefined
            /\ \A j \in DOMAIN corr :
                 corr[j].column1 \notin DOMAIN rowA(i) /\ LastWrite(j) =>
                   /\ corr[j].mergedName \in DOMAIN outRow(i)
                   /\ outRow(i)[corr[j].mergedName] = Undefined
       /\ \A i \in 1..rowsB :
            /\ \A c \in unmappedB : c \notin DOMAIN rowB(i) =>
                 c \in DOMAIN outRow(rowsA + i) /\ outRow(rowsA + i)[c] = Undefined
            /\ \A j \in DOMAIN corr :
                 corr[j].column2 \notin DOMAIN rowB(i) /\ LastWrite(j) =>
                   /\ corr[j].mergedName \in DOMAIN outRow(rowsA + i)
                   /\ outRow(rowsA + i)[corr[j].mergedName] = Undefined

C9_Witness ==
  /\ Returned
  /\ \E i \in 1..rowsA : \E c \in unmappedA \ (mergedNames \cup unmappedB) :
       c \notin DOMAIN rowA(i) /\ outRow(i)[c] = Undefined
  /\ \E i \in 1..rowsB : \E j \in DOMAIN corr :
       /\ corr[j].column2 \notin DOMAIN rowB(i) /\ LastWrite(j)
       /\ outRow(rowsA + i)[corr[j].mergedName] = Undefined

\* The identities of the caller's row objects.
InputRefs ==
  {Ref(1, i) : i \in 1..rowsA} \cup {Ref(2, i) : i \in 1..rowsB}

LastNamed(k) ==
  CHOOSE j \in DOMAIN corr :
    /\ corr[j].mergedName = k
    /\ \A j2 \in DOMAIN corr : corr[j2].mergedName = k => j2 <= j

\* What the last write to field k leaves in a row built from A's row: the
\* writes are A's unmapped columns, then the correspondences in list order,
\* then null for B's unmapped columns.
LastWrittenA(row, k) ==
  IF k \in unmappedB THEN Null
  ELSE IF k \in mergedNames THEN Get(row, corr[LastNamed(k)].column1)
  ELSE Get(row, k)

\* What the last write to field k leaves in a row built from B's row: the
\* writes are null for A's unmapped columns, then the correspondences in
\* list order, then B's unmapped columns.
LastWrittenB(row, k) ==
  IF k \in unmappedB THEN Get(row, k)
  ELSE IF k \in mergedNames THEN Get(row, corr[LastNamed(k)].column2)
  ELSE Null

\* Some field name is written more than once in a row: two correspondences
\* share a mergedName, or a mergedName is the name of an unmapped column.
NameCollision ==
  \/ \E j, j2 \in DOMAIN corr : j # j2 /\ corr[j].mergedName = corr[j2].mergedName
  \/ mergedNames \cap (unmappedA \cup unmappedB) # {}

\* C11: every output row owns exactly the names written for it, and each
\* field holds what the last write to its name left, in the order of the
\* row construction; the call returns a result and reports no conflict even
\* when a name is written more than once.
C11_LastWriteWins ==
  /\ ~raised
  /\ Returned =>
       /\ \A i \in 1..rowsA :
            /\ DOMAIN outRow(i) = unmappedA \cup mergedNames \cup unmappedB
            /\ \A k \in DOMAIN outRow(i) : outRow(i)[k] = LastWrittenA(rowA(i), k)
       /\ \A i \in 1..rowsB :
            /\ DOMAIN outRow(rowsA + i) = unmappedA \cup mergedNames \cup unmappedB
            /\ \A k \in DOMAIN outRow(rowsA + i) :
                 outRow(rowsA + i)[k] = LastWrittenB(rowB(i), k)
       /\ result.mappings = corr

C11_Witness ==
  /\ Returned
  /\ rowsA >= 1 /\ rowsB >= 1
  /\ \E j, j2 \in DOMAIN corr :
       /\ j < j2 /\ corr[j].mergedName = corr[j2].mergedName
       /\ outRow(1)[corr[j].mergedName] = Cell(1, 1, corr[j2].column1)
       /\ outRow(rowsA + 1)[corr[j].mergedName] = Cell(2, 1, corr[j2].column2)

\* The other collision: a mergedName that is also an unmapped column of B,
\* where the null-fill overwrites the mapped value in A's row and B's own
\* value overwrites it in B's row.
C11_WitnessUnmapped ==
  /\ Returned
  /\ rowsA >= 1 /\ rowsB >= 1
  /\ \E j \in DOMAIN corr :
       /\ corr[j].mergedName \in unmappedB
       /\ Get(rowA(1), corr[j].column1) # Undefined
       /\ outRow(1)[corr[j].mergedName] = Null
       /\ outRow(rowsA + 1)[corr[j].mergedName] = Get(rowB(1), corr[j].mergedName)

\* ------------------------------------------------ the handlers, as claimed
Served(route) == request.route = route /\ response # NoResponse
reqBody == request.body

NoColumnList(file) == Falsy(file) \/ "headers" \notin DOMAIN file.value

\* C8, as stated: an analyze request lacking the column list of either side
\* is answered 400, and 500 is answered only when the oracle call failed.
C8_AnalyzeRejects ==
  Served("analyze-columns") /\ reqBody.kind = "object" =>
    /\ NoColumnList(reqBody.file1) \/ NoColumnList(reqBody.file2) => response.status = 400
    /\ response.status = 500 => oracle = "rejected"

\* -------------------------------------------------- FileMerger, as claimed
\* C12: whatever the drops and removals and however they interleave, the
\* list of loaded files never holds more than two files.
C12_AtMostTwoFiles == Len(files) <= MaxFiles

\* C13: whenever a correspondence is held or a merge result is held, exactly
\* two files are loaded and they are the files the correspondences and the
\* result were computed from.
C13_DerivedFromLoadedFiles ==
  /\ Len(mappingsState) > 0 => Len(files) = MaxFiles /\ mappingsFrom = files
  /\ mergeResult # NoMergeResult =>
       Len(files) = MaxFiles /\ mergeResult.from = files

====
